---- MODULE Spec2Model ----
(***************************************************************************)
(* Verification model of web-mcp-hub: the config store (createConfig,      *)
(* updateConfig, deleteToolFromConfig over the configs table), alone and   *)
(* under concurrent requests, the tool and config schemas                  *)
(* (toolDescriptorSchema, createConfigSchema, updateConfigSchema), and the *)
(* URL pattern matcher and ranker (matchUrlPattern, rankConfigsByUrl),     *)
(* the tools table under concurrent addToolToConfig and                    *)
(* deleteToolFromConfig, the recursive actionStepSchema, the tool votes    *)
(* (upsertToolVote, getToolVotes) and the sliding-window rateLimit.        *)
(***************************************************************************)
EXTENDS Integers, Sequences, FiniteSets, TLC

VARIABLES
    configs,  \* the configs table: config id -> stored row; in the other
              \* specifications the tools table, the votes table or the
              \* rate limiter's store
    call,     \* the pure-function call under examination (function name and arguments)
    ret,      \* the value that call returned
    pc        \* "idle" (store specification), "called" or "returned"; per
              \* process in the concurrent specifications, the clock in RateSpec

vars == <<configs, call, ret, pc>>

----------------------------------------------------------------------------
(* Bounds of the model *)

\* longest tools array carried by one createConfig / updateConfig request
MaxIncoming == 2
\* versions are explored up to this value
MaxVersion == 3
\* longest stored tool list handed to a pure-function call
MaxStored == 3
\* most path segments in a urlPattern handed to matchUrlPattern
MaxPatSegs == 3
\* most path segments in a URL handed to matchUrlPattern
MaxUrlSegs == 3
\* longest record list handed to rankConfigsByUrl
MaxRecords == 3
\* most fields in an execution descriptor
MaxFields == 2
\* most steps in an execution descriptor
MaxSteps == 2
\* longest tools array handed to the config schemas
MaxTools == 3
\* deepest nesting of condition steps handed to actionStepSchema
MaxDepth == 4
\* the rate limiter's default window of 60 000 ms, in ticks of 20 000 ms
WindowMs == 3
\* latest value the clock of the rate limiter reaches
MaxTime == 5
\* the tool limit of addToolToConfig, 50 in the code, scaled to the tool names
ToolLimit == 2

----------------------------------------------------------------------------
(* Values *)

NULL == "null"

ConfigIds == {"c1"}
ToolNames == {"a", "b", "c"}
Titles == {"t1", "t2"}
\* a tool's execution descriptor: absent (NULL) or present
Executions == {NULL, "e1"}

\* a tool as far as the store looks at it: its name and its definition, of
\* which the execution descriptor is the part the store inspects
ToolDescriptor == [name : ToolNames, execution : Executions]

\* every sequence over S of length at most n
SeqUpTo(S, n) == UNION {[1..k -> S] : k \in 0..n}

Range(s) == {s[i] : i \in DOMAIN s}

\* tools.map((t) => t.name) as a set
NameSet(tools) == {tools[i].name : i \in DOMAIN tools}

----------------------------------------------------------------------------
(* packages/db validation: duplicate tool names *)

uniqueToolNames_NoCheck(tools) == {}

\* The array indices (1-based here) at which uniqueToolNames adds a
\* "Duplicate tool name" issue: the name at i was already seen before i.
uniqueToolNames(tools) ==
    {i \in DOMAIN tools : \E j \in 1..(i - 1) : tools[j].name = tools[i].name}

\* createConfigSchema.safeParse succeeds (title and tools are the modelled fields)
createConfigSchema(input) == uniqueToolNames(input.tools) = {}

\* updateConfigSchema.safeParse succeeds; tools is optional
updateConfigSchema(input) ==
    "tools" \in DOMAIN input => uniqueToolNames(input.tools) = {}

----------------------------------------------------------------------------
(* apps/web lib: the config store *)

computeHasExecution_Always(tools) == 1

computeHasExecution(tools) ==
    IF \E i \in DOMAIN tools : tools[i].execution # NULL THEN 1 ELSE 0

\* Map.prototype.set on an insertion-ordered list of entries keyed by name
mapSet(entries, t) ==
    IF \E i \in DOMAIN entries : entries[i].name = t.name
    THEN [i \in DOMAIN entries |-> IF entries[i].name = t.name THEN t ELSE entries[i]]
    ELSE Append(entries, t)

RECURSIVE mapSetAll(_, _)
mapSetAll(entries, ts) ==
    IF ts = <<>> THEN entries
    ELSE mapSetAll(mapSet(entries, Head(ts)), Tail(ts))

mergeTools_Replace(existing, incoming) == incoming

\* updateConfig's merge: a Map seeded from the stored tools, then every
\* incoming tool set by name; the result is the Map's values in order.
mergeTools(existing, incoming) ==
    mapSetAll(mapSetAll(<<>>, existing), incoming)

\* restriction of a verified map to the keys in keep
Restrict(vMap, keep) == [n \in (DOMAIN vMap) \cap keep |-> vMap[n]]

pruneVerified_DropAll(vMap, mergedTools) == <<>>

\* updateConfig: keep the snapshots of tools still present after the merge.
\* The empty map stands for the stored null (the code never stores {}).
pruneVerified(vMap, mergedTools) == Restrict(vMap, NameSet(mergedTools))

\* rowToConfig: the verified names reported for a row, those keys of the
\* verified map that name a stored tool
verifiedToolNames(row) == (DOMAIN row.verifiedTools) \cap NameSet(row.tools)

\* tools.filter((t) => t.name !== toolName)
RECURSIVE filterTools(_, _)
filterTools(tools, toolName) ==
    IF tools = <<>> THEN <<>>
    ELSE IF Head(tools).name # toolName
         THEN <<Head(tools)>> \o filterTools(Tail(tools), toolName)
         ELSE filterTools(Tail(tools), toolName)

CreateInputs == [title : Titles, tools : SeqUpTo(ToolDescriptor, MaxIncoming)]

UpdateInputs ==
    {<<>>}
    \cup [title : Titles]
    \cup [tools : SeqUpTo(ToolDescriptor, MaxIncoming)]
    \cup [title : Titles, tools : SeqUpTo(ToolDescriptor, MaxIncoming)]

\* POST /api/configs: the body passed createConfigSchema and no row exists
\* for the (domain, urlPattern) pair; createConfig inserts the row.
createConfig(id, input) ==
    /\ pc = "idle"
    /\ id \notin DOMAIN configs
    /\ createConfigSchema(input)
    /\ configs' = [i \in (DOMAIN configs) \cup {id} |->
                     IF i = id
                     THEN [title |-> input.title,
                           tools |-> input.tools,
                           version |-> 1,
                           hasExecution |-> computeHasExecution(input.tools),
                           verifiedTools |-> <<>>]
                     ELSE configs[i]]
    /\ UNCHANGED <<call, ret, pc>>

\* PATCH /api/configs/:id: the body passed updateConfigSchema; updateConfig
\* reads the row, merges and prunes, and writes it back with version + 1.
updateConfig(id, input) ==
    /\ pc = "idle"
    /\ id \in DOMAIN configs
    /\ updateConfigSchema(input)
    /\ configs[id].version < MaxVersion
    /\ LET existingRow == configs[id]
           u1 == [existingRow EXCEPT !.version = @ + 1]
           u2 == IF "title" \in DOMAIN input
                 THEN [u1 EXCEPT !.title = input.title] ELSE u1
           mergedTools == mergeTools(existingRow.tools, input.tools)
           u3 == IF "tools" \in DOMAIN input
                 THEN [u2 EXCEPT !.tools = mergedTools,
                                 !.hasExecution = computeHasExecution(mergedTools),
                                 !.verifiedTools =
                                     pruneVerified(existingRow.verifiedTools, mergedTools)]
                 ELSE u2
       IN configs' = [configs EXCEPT ![id] = u3]
    /\ UNCHANGED <<call, ret, pc>>

deleteToolFromConfig(id, toolName) ==
    /\ pc = "idle"
    /\ id \in DOMAIN configs
    /\ configs[id].version < MaxVersion
    /\ LET existingRow == configs[id]
           filteredTools == filterTools(existingRow.tools, toolName)
           prunedVerified == Restrict(existingRow.verifiedTools,
                                      (DOMAIN existingRow.verifiedTools) \ {toolName})
       IN configs' = [configs EXCEPT ![id] =
                         [existingRow EXCEPT !.tools = filteredTools,
                                             !.hasExecution = computeHasExecution(filteredTools),
                                             !.verifiedTools = prunedVerified,
                                             !.version = @ + 1]]
    /\ UNCHANGED <<call, ret, pc>>

\* POST /api/internal/verify -> setToolVerified: the moderation webhook
\* records (verified = TRUE) or drops (FALSE) the snapshot of one stored tool.
setToolVerified(id, toolName, verified) ==
    /\ pc = "idle"
    /\ id \in DOMAIN configs
    /\ \E i \in DOMAIN configs[id].tools :
          /\ configs[id].tools[i].name = toolName
          /\ LET vMap == configs[id].verifiedTools
                 snapshot == configs[id].tools[i]
             IN configs' = [configs EXCEPT ![id].verifiedTools =
                               IF verified
                               THEN [n \in (DOMAIN vMap) \cup {toolName} |->
                                       IF n = toolName THEN snapshot ELSE vMap[n]]
                               ELSE Restrict(vMap, (DOMAIN vMap) \ {toolName})]
    /\ UNCHANGED <<call, ret, pc>>

NoCall == [fn |-> "none"]

Init ==
    /\ configs = <<>>
    /\ call = NoCall
    /\ ret = NoCall
    /\ pc = "idle"

Next ==
    \/ \E id \in ConfigIds, input \in CreateInputs : createConfig(id, input)
    \/ \E id \in ConfigIds, input \in UpdateInputs : updateConfig(id, input)
    \/ \E id \in ConfigIds, toolName \in ToolNames : deleteToolFromConfig(id, toolName)
    \/ \E id \in ConfigIds, toolName \in ToolNames, verified \in BOOLEAN :
          setToolVerified(id, toolName, verified)

Spec == Init /\ [][Next]_vars

----------------------------------------------------------------------------
(* The merge of updateConfig as a function of its two lists *)

\* tool lists with pairwise different names (what uniqueToolNames accepts)
UniqueLists(n) == {ts \in SeqUpTo(ToolDescriptor, n) : uniqueToolNames(ts) = {}}

MergeInit ==
    /\ configs = <<>>
    /\ call \in [fn : {"mergeTools"},
                  existing : UniqueLists(MaxStored),
                  incoming : UniqueLists(MaxIncoming)]
    /\ ret = NoCall
    /\ pc = "called"

MergeCall ==
    /\ pc = "called"
    /\ call.fn = "mergeTools"
    /\ ret' = mergeTools(call.existing, call.incoming)
    /\ pc' = "returned"
    /\ UNCHANGED <<configs, call>>

MergeNext == MergeCall

MergeSpec == MergeInit /\ [][MergeNext]_vars

----------------------------------------------------------------------------
(* packages/db url-matching: strings are sequences of one-character strings *)

Slash == <<"/">>
Https == <<"h", "t", "t", "p", "s", ":", "/", "/">>
Http == <<"h", "t", "t", "p", ":", "/", "/">>

\* String.prototype.toLowerCase on the characters used here
LowerChar(c) ==
    CASE c = "A" -> "a"
      [] c = "B" -> "b"
      [] c = "D" -> "d"
      [] c = "W" -> "w"
      [] OTHER -> c

toLowerCase(s) == [i \in DOMAIN s |-> LowerChar(s[i])]

startsWith(s, prefix) ==
    Len(s) >= Len(prefix) /\ SubSeq(s, 1, Len(prefix)) = prefix

endsWith(s, suffix) ==
    Len(s) >= Len(suffix) /\ SubSeq(s, Len(s) - Len(suffix) + 1, Len(s)) = suffix

\* s.slice(n)
slice(s, n) == SubSeq(s, n + 1, Len(s))

\* if (path.length > 1 && path.endsWith("/")) path = path.slice(0, -1)
stripTrailingSlash(path) ==
    IF Len(path) > 1 /\ endsWith(path, Slash) THEN SubSeq(path, 1, Len(path) - 1) ELSE path

\* s.indexOf of the first character that lies in cs, as a 1-based position;
\* Len(s) + 1 when there is none
RECURSIVE indexOfAny(_, _, _)
indexOfAny(s, cs, i) ==
    IF i > Len(s) THEN Len(s) + 1
    ELSE IF s[i] \in cs THEN i
    ELSE indexOfAny(s, cs, i + 1)

extractPath_NoStrip(urlPattern, domain) ==
    stripTrailingSlash(IF startsWith(urlPattern, Slash) THEN urlPattern ELSE Slash \o urlPattern)

extractPath(urlPattern, domain) ==
    LET stripped == IF startsWith(toLowerCase(urlPattern), domain)
                    THEN slice(urlPattern, Len(domain))
                    ELSE urlPattern
        rooted == IF ~startsWith(stripped, Slash) THEN Slash \o stripped ELSE stripped
    IN stripTrailingSlash(rooted)

\* url.replace(/^https?:\/\//, "")
stripScheme(url) ==
    IF startsWith(url, Https) THEN slice(url, Len(Https))
    ELSE IF startsWith(url, Http) THEN slice(url, Len(Http))
    ELSE url

\* new URL(url) succeeds: an http(s) scheme followed by a non-empty host.
\* (A string without a scheme has no base to resolve against and throws.)
urlParses(url) ==
    /\ startsWith(url, Https) \/ startsWith(url, Http)
    /\ indexOfAny(stripScheme(url), {"/", "?", "#"}, 1) > 1

\* new URL(url).pathname: what follows the host up to the query or fragment,
\* "/" when that is empty.  The characters used here are none that the URL
\* parser rewrites (no dot segments, backslashes or percent-encoded bytes).
urlPathname(url) ==
    LET rest == stripScheme(url)
        afterHost == slice(rest, indexOfAny(rest, {"/", "?", "#"}, 1) - 1)
        path == SubSeq(afterHost, 1, indexOfAny(afterHost, {"?", "#"}, 1) - 1)
    IN IF path = <<>> THEN Slash ELSE path

normalizeUrlToPath(url) ==
    IF urlParses(url)
    THEN stripTrailingSlash(urlPathname(url))
    ELSE LET bare == stripScheme(url)
             slashIdx == indexOfAny(bare, {"/"}, 1)
         IN stripTrailingSlash(IF slashIdx <= Len(bare)
                               THEN slice(bare, slashIdx - 1)
                               ELSE Slash)

\* path.split("/").filter(Boolean): the non-empty pieces between slashes
RECURSIVE splitSegments(_)
splitSegments(path) ==
    IF path = <<>> THEN <<>>
    ELSE LET cut == indexOfAny(path, {"/"}, 1)
             piece == SubSeq(path, 1, cut - 1)
             rest == splitSegments(slice(path, cut))
         IN IF piece = <<>> THEN rest ELSE <<piece>> \o rest

\* score added by a static segment and by a dynamic (:param) segment
StaticScore_AsDynamic == 1 + 1

StaticScore == 3
DynamicScore == 2

isWildcard_Never(ps) == FALSE

\* ps === "**"
isWildcard(ps) == ps = <<"*", "*">>

\* ps.startsWith(":")
isDynamic(ps) == startsWith(ps, <<":">>)

staticMatches_CaseSensitive(ps, us) == ps = us

\* ps.toLowerCase() === us.toLowerCase()
staticMatches(ps, us) == toLowerCase(ps) = toLowerCase(us)

\* params[key] = value on a plain object
setParam(params, key, value) ==
    [k \in (DOMAIN params) \cup {key} |-> IF k = key THEN value ELSE params[k]]

NoMatch == [matched |-> FALSE, score |-> 0, params |-> <<>>]

\* the for loop of matchUrlPattern from index i on (1-based), and the
\* length check that follows it
RECURSIVE matchFrom(_, _, _, _, _)
matchFrom(i, patternSegments, urlSegments, score, params) ==
    IF i > Len(patternSegments)
    THEN IF Len(urlSegments) > Len(patternSegments)
         THEN NoMatch
         ELSE [matched |-> TRUE, score |-> score, params |-> params]
    ELSE LET ps == patternSegments[i]
         IN IF isWildcard(ps)
            THEN [matched |-> TRUE, score |-> score, params |-> params]
            ELSE IF i > Len(urlSegments)
            THEN NoMatch
            ELSE IF isDynamic(ps)
            THEN matchFrom(i + 1, patternSegments, urlSegments, score + DynamicScore,
                           setParam(params, slice(ps, 1), urlSegments[i]))
            ELSE IF staticMatches(ps, urlSegments[i])
            THEN matchFrom(i + 1, patternSegments, urlSegments, score + StaticScore, params)
            ELSE NoMatch

matchUrlPattern(urlPattern, actualUrl, domain) ==
    LET patternPath == extractPath(urlPattern, domain)
        urlPath == normalizeUrlToPath(actualUrl)
    IN IF patternPath = Slash
       THEN [matched |-> TRUE, score |-> 0, params |-> <<>>]
       ELSE matchFrom(1, splitSegments(patternPath), splitSegments(urlPath), 0, <<>>)

----------------------------------------------------------------------------
(* matchUrlPattern applied to bounded patterns and URLs *)

\* the normalized domain of the configs looked up
Domain == <<"d">>

PatSegs == {<<"a">>, <<"B">>, <<":", "x">>, <<":", "y">>, <<"*", "*">>}
UrlSegs == {<<"a">>, <<"b">>}

\* "/" + seg for every segment
RECURSIVE joinPath(_)
joinPath(segs) ==
    IF segs = <<>> THEN <<>> ELSE Slash \o Head(segs) \o joinPath(Tail(segs))

\* urlPatterns: the domain as stored or capitalised, a path of pattern
\* segments, with or without a trailing slash
PatternInputs ==
    {prefix \o joinPath(segs) \o trail :
        prefix \in {Domain, <<"D">>},
        segs \in SeqUpTo(PatSegs, MaxPatSegs),
        trail \in {<<>>, Slash}}

\* URLs: with or without scheme, a path of segments, with or without a
\* trailing slash and a query
UrlInputs ==
    {scheme \o Domain \o joinPath(segs) \o trail \o query :
        scheme \in {Https, <<>>},
        segs \in SeqUpTo(UrlSegs, MaxUrlSegs),
        trail \in {<<>>, Slash},
        query \in {<<>>, <<"?", "q">>}}

MatchInit ==
    /\ configs = <<>>
    /\ call \in [fn : {"matchUrlPattern"},
                  urlPattern : PatternInputs,
                  actualUrl : UrlInputs,
                  domain : {Domain}]
    /\ ret = NoCall
    /\ pc = "called"

MatchCall ==
    /\ pc = "called"
    /\ call.fn = "matchUrlPattern"
    /\ ret' = matchUrlPattern(call.urlPattern, call.actualUrl, call.domain)
    /\ pc' = "returned"
    /\ UNCHANGED <<configs, call>>

MatchNext == MatchCall

MatchSpec == MatchInit /\ [][MatchNext]_vars

----------------------------------------------------------------------------
(* rankConfigsByUrl applied to bounded record lists *)

sortByScoreDesc_Unsorted(rs) == rs

\* one step of the sort: r goes behind every element whose score is not lower
RECURSIVE insertByScore(_, _)
insertByScore(sorted, r) ==
    IF sorted = <<>> THEN <<r>>
    ELSE IF Head(sorted).score >= r.score
         THEN <<Head(sorted)>> \o insertByScore(Tail(sorted), r)
         ELSE <<r>> \o sorted

RECURSIVE insertAllByScore(_, _)
insertAllByScore(sorted, rs) ==
    IF rs = <<>> THEN sorted
    ELSE insertAllByScore(insertByScore(sorted, Head(rs)), Tail(rs))

\* .sort((a, b) => b.score - a.score): descending by score; Array.prototype.sort
\* is stable, so records of equal score keep their input order
sortByScoreDesc(rs) == insertAllByScore(<<>>, rs)

rankConfigsByUrl(cfgs, actualUrl, domain) ==
    LET scored == [i \in DOMAIN cfgs |->
                     LET m == matchUrlPattern(cfgs[i].urlPattern, actualUrl, domain)
                     IN [config |-> cfgs[i], matched |-> m.matched, score |-> m.score]]
        sorted == sortByScoreDesc(SelectSeq(scored, LAMBDA r : r.matched))
    IN [i \in DOMAIN sorted |-> sorted[i].config]

\* the urlPatterns of the records ranked: domain-only, wildcard, static and
\* dynamic patterns of one to three segments, and one with a misplaced "**"
RankPatterns ==
    {Domain \o joinPath(segs) : segs \in
        {<<>>,
         <<<<"*", "*">>>>,
         <<<<"a">>>>,
         <<<<":", "x">>>>,
         <<<<"a">>, <<"*", "*">>>>,
         <<<<"a">>, <<"B">>>>,
         <<<<"a">>, <<":", "x">>>>,
         <<<<":", "x">>, <<":", "y">>>>,
         <<<<"*", "*">>, <<"a">>>>,
         <<<<"a">>, <<"B">>, <<"*", "*">>>>,
         <<<<":", "x">>, <<":", "y">>, <<":", "x">>>>}}

\* record lists; a record's name is its position in the input
RankRecords ==
    {[i \in DOMAIN ps |-> [name |-> i, urlPattern |-> ps[i]]] :
        ps \in SeqUpTo(RankPatterns, MaxRecords)}

RankUrls ==
    {Https \o Domain \o joinPath(segs) : segs \in SeqUpTo(UrlSegs, MaxUrlSegs)}

RankInit ==
    /\ configs = <<>>
    /\ call \in [fn : {"rankConfigsByUrl"},
                  configs : RankRecords,
                  actualUrl : RankUrls,
                  domain : {Domain}]
    /\ ret = NoCall
    /\ pc = "called"

RankCall ==
    /\ pc = "called"
    /\ call.fn = "rankConfigsByUrl"
    /\ ret' = rankConfigsByUrl(call.configs, call.actualUrl, call.domain)
    /\ pc' = "returned"
    /\ UNCHANGED <<configs, call>>

RankNext == RankCall

RankSpec == RankInit /\ [][RankNext]_vars

----------------------------------------------------------------------------
(* packages/db validation: toolDescriptorSchema *)

\* characters matched by \w in the template regex
WordChars == {"q", "p", "z"}

\* property and field names, as strings of characters
PropNames == {<<"q">>, <<"p">>}
FieldNames == {<<"q">>, <<"z">>}

\* JSON values a property of inputSchema.properties may hold: a scalar, or
\* an object whose type key is a string, a number, or missing
JsonValues ==
    {[json |-> "number", type |-> "undefined"],
     [json |-> "string", type |-> "undefined"],
     [json |-> "boolean", type |-> "undefined"],
     [json |-> "object", type |-> "string"],
     [json |-> "object", type |-> "number"],
     [json |-> "object", type |-> "undefined"]}

jsonSchemaPropertySchema_AnyObject(v) == v.json = "object"

\* z.object({ type: z.string().max(50), ... }).passthrough()
jsonSchemaPropertySchema(v) == v.json = "object" /\ v.type = "string"

\* properties: z.record(...).default({})
propertiesOrDefault(schema) ==
    IF "properties" \in DOMAIN schema THEN schema.properties ELSE <<>>

MaxProperties == 20

\* the issues of inputSchemaSchema, by path
inputSchemaSchema(schema) ==
    LET props == propertiesOrDefault(schema) IN
    (IF schema.type = "object" THEN {} ELSE {<<"inputSchema", "type">>})
    \cup {<<"inputSchema", "properties", k>> :
             k \in {n \in DOMAIN props : ~jsonSchemaPropertySchema(props[n])}}
    \cup (IF /\ schema.type = "object"
             /\ \A n \in DOMAIN props : jsonSchemaPropertySchema(props[n])
             /\ Cardinality(DOMAIN props) > MaxProperties
          THEN {<<"inputSchema", "properties">>} ELSE {})

\* const schemaProps = Object.keys(tool.inputSchema.properties ?? {})
schemaProps(tool) == DOMAIN propertiesOrDefault(tool.inputSchema)

checkFields_NoCheck(tool) == {}

\* the issues added for execution.fields: one per index i (0-based in the
\* path) whose name is not a property, naming the field and the properties
checkFields(tool) ==
    IF "fields" \in DOMAIN tool.execution
    THEN {[path |-> <<"execution", "fields", i - 1, "name">>,
           field |-> tool.execution.fields[i].name,
           available |-> schemaProps(tool)] :
             i \in {j \in DOMAIN tool.execution.fields :
                       tool.execution.fields[j].name \notin schemaProps(tool)}}
    ELSE {}

\* the number of \w characters of value from position i on
RECURSIVE wordRun(_, _)
wordRun(value, i) ==
    IF i <= Len(value) /\ value[i] \in WordChars
    THEN 1 + wordRun(value, i + 1)
    ELSE 0

\* /\{\{(\w+)\}\}/ matches value at position s
templateAt(value, s) ==
    LET n == wordRun(value, s + 2) IN
    /\ s + 1 <= Len(value)
    /\ value[s] = "{" /\ value[s + 1] = "{"
    /\ n >= 1
    /\ s + 3 + n <= Len(value)
    /\ value[s + 2 + n] = "}" /\ value[s + 3 + n] = "}"

\* the captures m[1] of repeated templateRe.exec(value), from lastIndex i
RECURSIVE templateMatches(_, _)
templateMatches(value, i) ==
    IF i > Len(value) THEN {}
    ELSE IF templateAt(value, i)
         THEN LET n == wordRun(value, i + 2) IN
              {SubSeq(value, i + 2, i + 1 + n)} \cup templateMatches(value, i + 4 + n)
         ELSE templateMatches(value, i + 1)

\* checkTemplates(value, path)
checkTemplates(tool, value, path) ==
    {[path |-> path, variable |-> m, available |-> schemaProps(tool)] :
        m \in {t \in templateMatches(value, 1) : t \notin schemaProps(tool)}}

StepKeys == {"url", "value", "selector"}

\* the issues added for execution.steps; skipped when there are no properties
checkSteps(tool) ==
    IF schemaProps(tool) # {} /\ "steps" \in DOMAIN tool.execution
    THEN UNION {UNION {checkTemplates(tool, tool.execution.steps[i][k],
                                      <<"execution", "steps", i - 1, k>>) :
                         k \in StepKeys \cap DOMAIN tool.execution.steps[i]} :
                  i \in DOMAIN tool.execution.steps}
    ELSE {}

NameMax == 100

\* the issue paths of the tool's own fields that end the parse (a wrong
\* type or literal somewhere in inputSchema)
abortingIssues(tool) ==
    inputSchemaSchema(tool.inputSchema) \ {<<"inputSchema", "properties">>}

\* the issue paths of checks that fail without ending the parse: the length
\* of name, the number of properties
dirtyIssues(tool) ==
    (IF Len(tool.name) >= 1 /\ Len(tool.name) <= NameMax THEN {} ELSE {<<"name">>})
    \cup (inputSchemaSchema(tool.inputSchema) \cap {<<"inputSchema", "properties">>})

\* toolDescriptorSchema.safeParse: the object schema's issues, and those of
\* the refinement, which runs unless the object's parse was ended by a wrong
\* type; a failed length or count check does not end it
toolDescriptorSchema(tool) ==
    LET aborted == abortingIssues(tool)
        dirty == dirtyIssues(tool)
        refined == IF "execution" \in DOMAIN tool
                   THEN checkFields(tool) \cup checkSteps(tool)
                   ELSE {}
        schema == {[path |-> q, code |-> "schema"] : q \in aborted \cup dirty}
        issues == IF aborted # {} THEN schema ELSE schema \cup refined
    IN [success |-> issues = {},
        structural |-> aborted \cup dirty = {},
        issues |-> issues]

----------------------------------------------------------------------------
(* toolDescriptorSchema applied to bounded tools *)

Hash == <<"#">>
Template(name) == <<"{", "{">> \o name \o <<"}", "}">>

\* the steps of an execution: navigate, click and fill steps whose strings
\* hold no template, a known one, an unknown one, two of them, a template
\* of a non-word character, an empty one, or one in extra braces
Steps ==
    [action : {"navigate"},
     url : {Hash, Template(<<"q">>), Template(<<"z">>), Template(Hash)}]
    \cup [action : {"click"},
          selector : {Template(<<"q">>) \o Hash \o Template(<<"z">>),
                      Template(<<"z", "q">>),
                      <<"{">> \o Template(<<"p">>) \o <<"}">>,
                      <<"{", "q", "}">>}]
    \cup [action : {"fill"},
          selector : {Hash},
          value : {Hash, Template(<<"q">>), Template(<<"z">>), Template(<<>>)}]

\* every function from a subset of S to T
PartialFunctions(S, T) == UNION {[D -> T] : D \in SUBSET S}

\* inputSchemas of every type whose properties hold every kind of value
AnyInputSchemas ==
    [type : {"object", "string", "undefined"},
     properties : PartialFunctions(PropNames, JsonValues)]
    \cup [type : {"object", "string", "undefined"}]

\* inputSchemas that parse
ValidInputSchemas ==
    [type : {"object"},
     properties : PartialFunctions(PropNames, {[json |-> "object", type |-> "string"]})]
    \cup [type : {"object"}]

FieldLists == SeqUpTo([name : FieldNames], MaxFields)
StepLists == SeqUpTo(Steps, MaxSteps)

ExecutionInputs ==
    {<<>>}
    \cup [fields : FieldLists]
    \cup [steps : StepLists]
    \cup [fields : FieldLists, steps : StepLists]

\* tool names: one that parses and the empty string
NameInputs == {<<"t">>, <<>>}

ToolInputs ==
    [name : NameInputs, inputSchema : AnyInputSchemas]
    \cup [name : NameInputs, inputSchema : AnyInputSchemas,
          execution : {[fields |-> <<[name |-> <<"z">>]>>]}]
    \cup [name : NameInputs, inputSchema : ValidInputSchemas, execution : ExecutionInputs]

ToolInit ==
    /\ configs = <<>>
    /\ call \in [fn : {"toolDescriptorSchema"}, tool : ToolInputs]
    /\ ret = NoCall
    /\ pc = "called"

ToolCall ==
    /\ pc = "called"
    /\ call.fn = "toolDescriptorSchema"
    /\ ret' = toolDescriptorSchema(call.tool)
    /\ pc' = "returned"
    /\ UNCHANGED <<configs, call>>

ToolNext == ToolCall

ToolSpec == ToolInit /\ [][ToolNext]_vars

----------------------------------------------------------------------------
(* packages/db validation: createConfigSchema and updateConfigSchema *)

Www == <<"w", "w", "w", ".">>

\* d.replace(/^www\./, "")
stripWww(d) == IF startsWith(d, Www) THEN slice(d, Len(Www)) ELSE d

\* (d) => d.toLowerCase().replace(/^www\./, "")
domainTransform(d) == stripWww(toLowerCase(d))

\* s.replace(/\/+$/, "")
RECURSIVE stripTrailingSlashes(_)
stripTrailingSlashes(s) ==
    IF endsWith(s, Slash)
    THEN stripTrailingSlashes(SubSeq(s, 1, Len(s) - 1))
    ELSE s

\* val.replace(/^https?:\/\//, "").replace(/\/+$/, "") || val
normalizeUrlPattern(val) ==
    LET stripped == stripTrailingSlashes(stripScheme(val)) IN
    IF stripped = <<>> THEN val ELSE stripped

DomainMax == 253
UrlPatternMax == 2048
ToolsMax == 30

\* z.string().min(1).max(n)
stringMinMax(s, n) == Len(s) >= 1 /\ Len(s) <= n

\* z.array(toolDescriptorSchema).max(30).superRefine(uniqueToolNames) over
\* tools that each parse: the issues, by path
toolsArraySchema(tools) ==
    (IF Len(tools) > ToolsMax THEN {<<"tools">>} ELSE {})
    \cup {<<"tools", i - 1, "name">> : i \in uniqueToolNames(tools)}

\* createConfigSchema.safeParse over domain, urlPattern and tools
createConfigSchema_safeParse(input) ==
    LET issues ==
            (IF stringMinMax(input.domain, DomainMax) THEN {} ELSE {<<"domain">>})
            \cup (IF stringMinMax(input.urlPattern, UrlPatternMax)
                  THEN {} ELSE {<<"urlPattern">>})
            \cup toolsArraySchema(input.tools)
    IN IF issues = {}
       THEN [success |-> TRUE, issues |-> {},
             data |-> [domain |-> domainTransform(input.domain),
                       urlPattern |-> normalizeUrlPattern(input.urlPattern),
                       tools |-> input.tools]]
       ELSE [success |-> FALSE, issues |-> issues, data |-> <<>>]

\* updateConfigSchema.safeParse over urlPattern and tools, both optional
updateConfigSchema_safeParse(input) ==
    LET issues ==
            (IF "urlPattern" \in DOMAIN input
                /\ ~stringMinMax(input.urlPattern, UrlPatternMax)
             THEN {<<"urlPattern">>} ELSE {})
            \cup (IF "tools" \in DOMAIN input
                  THEN toolsArraySchema(input.tools) ELSE {})
    IN IF issues = {}
       THEN [success |-> TRUE, issues |-> {},
             data |-> [k \in DOMAIN input |->
                          IF k = "urlPattern"
                          THEN normalizeUrlPattern(input.urlPattern)
                          ELSE input.tools]]
       ELSE [success |-> FALSE, issues |-> issues, data |-> <<>>]

----------------------------------------------------------------------------
(* createConfigSchema and updateConfigSchema applied to bounded inputs *)

\* domains: plain, capitalised, with one or two www. prefixes, in capitals,
\* the prefix alone, without its dot, and the empty string
DomainInputs ==
    {Domain, <<"D">>, Www \o Domain, <<"W", "W", "W", ".">> \o <<"D">>,
     Www \o Www \o Domain, Www, <<"w", "w", "w">> \o Domain, <<>>}

\* urlPatterns: a domain and path with or without scheme and trailing
\* slashes, the bare domain, slashes alone, a scheme alone, a doubled
\* scheme, and the empty string
UrlPatternInputs ==
    {scheme \o Domain \o path \o trail :
        scheme \in {<<>>, Https, Http},
        path \in {<<>>, <<"/", "a">>},
        trail \in {<<>>, Slash, Slash \o Slash}}
    \cup {Slash, Slash \o Slash, Https, Http \o Slash, Https \o Https \o Domain, <<>>}

ToolLists == SeqUpTo([name : ToolNames], MaxTools)

CreateSchemaInputs ==
    [domain : DomainInputs, urlPattern : UrlPatternInputs, tools : ToolLists]

UpdateSchemaInputs ==
    {<<>>}
    \cup [urlPattern : UrlPatternInputs]
    \cup [tools : ToolLists]
    \cup [urlPattern : UrlPatternInputs, tools : ToolLists]

SchemaInit ==
    /\ configs = <<>>
    /\ call \in [fn : {"createConfigSchema"}, input : CreateSchemaInputs]
                \cup [fn : {"updateConfigSchema"}, input : UpdateSchemaInputs]
    /\ ret = NoCall
    /\ pc = "called"

CreateParse ==
    /\ pc = "called"
    /\ call.fn = "createConfigSchema"
    /\ ret' = createConfigSchema_safeParse(call.input)
    /\ pc' = "returned"
    /\ UNCHANGED <<configs, call>>

UpdateParse ==
    /\ pc = "called"
    /\ call.fn = "updateConfigSchema"
    /\ ret' = updateConfigSchema_safeParse(call.input)
    /\ pc' = "returned"
    /\ UNCHANGED <<configs, call>>

SchemaNext == CreateParse \/ UpdateParse

SchemaSpec == SchemaInit /\ [][SchemaNext]_vars

----------------------------------------------------------------------------
(* Concurrent requests against the config store: every await of a handler
   is a step of its own, so the row a handler read may be stale when it
   writes *)

Procs == {"p1", "p2"}

ToolA == [name |-> "a", execution |-> NULL]
ToolB == [name |-> "b", execution |-> "e1"]

ConcCreateInputs ==
    {[title |-> "t1", tools |-> <<ToolA>>],
     [title |-> "t1", tools |-> <<ToolA, ToolB>>]}

ConcUpdateInputs ==
    {<<>>, [title |-> "t2"], [tools |-> <<ToolB>>],
     [tools |-> <<[name |-> "a", execution |-> "e1"]>>]}

nextVersion_Keep(row) == row.version

\* version: sql`${configs.version} + 1`, evaluated on the row being updated
nextVersion(row) == row.version + 1

\* requests that have read the row and not yet written it
Pending == {q \in Procs : pc[q] # "idle"}

\* db.insert(configs).values({...version: 1...}): one statement
ConcCreate(p, id, input) ==
    /\ pc[p] = "idle"
    /\ id \notin DOMAIN configs
    /\ createConfigSchema(input)
    /\ configs' = [i \in (DOMAIN configs) \cup {id} |->
                     IF i = id
                     THEN [title |-> input.title,
                           tools |-> input.tools,
                           version |-> 1,
                           hasExecution |-> computeHasExecution(input.tools),
                           verifiedTools |-> <<>>]
                     ELSE configs[i]]
    /\ UNCHANGED <<call, ret, pc>>

\* updateConfig up to its select: existingRow is kept in ret[p]
ConcUpdateRead(p, id, input) ==
    /\ pc[p] = "idle"
    /\ id \in DOMAIN configs
    /\ updateConfigSchema(input)
    /\ configs[id].version + Cardinality(Pending) < MaxVersion
    /\ call' = [call EXCEPT ![p] = [fn |-> "updateConfig", id |-> id, input |-> input]]
    /\ ret' = [ret EXCEPT ![p] = configs[id]]
    /\ pc' = [pc EXCEPT ![p] = "update"]
    /\ UNCHANGED configs

\* updateConfig's db.update(configs).set(updates): the columns named in
\* updates are computed from existingRow, version from the row as it is now
ConcUpdateWrite(p) ==
    /\ pc[p] = "update"
    /\ LET id == call[p].id
           input == call[p].input
           existingRow == ret[p]
           u1 == [configs[id] EXCEPT !.version = nextVersion(configs[id])]
           u2 == IF "title" \in DOMAIN input
                 THEN [u1 EXCEPT !.title = input.title] ELSE u1
           mergedTools == mergeTools(existingRow.tools, input.tools)
           u3 == IF "tools" \in DOMAIN input
                 THEN [u2 EXCEPT !.tools = mergedTools,
                                 !.hasExecution = computeHasExecution(mergedTools),
                                 !.verifiedTools =
                                     pruneVerified(existingRow.verifiedTools, mergedTools)]
                 ELSE u2
       IN configs' = [configs EXCEPT ![id] = u3]
    /\ call' = [call EXCEPT ![p] = NoCall]
    /\ ret' = [ret EXCEPT ![p] = NoCall]
    /\ pc' = [pc EXCEPT ![p] = "idle"]

\* deleteToolFromConfig up to its select
ConcDeleteRead(p, id, toolName) ==
    /\ pc[p] = "idle"
    /\ id \in DOMAIN configs
    /\ configs[id].version + Cardinality(Pending) < MaxVersion
    /\ call' = [call EXCEPT ![p] =
                   [fn |-> "deleteToolFromConfig", id |-> id, toolName |-> toolName]]
    /\ ret' = [ret EXCEPT ![p] = configs[id]]
    /\ pc' = [pc EXCEPT ![p] = "delete"]
    /\ UNCHANGED configs

\* deleteToolFromConfig's db.update(configs).set({...})
ConcDeleteWrite(p) ==
    /\ pc[p] = "delete"
    /\ LET id == call[p].id
           toolName == call[p].toolName
           existingRow == ret[p]
           filteredTools == filterTools(existingRow.tools, toolName)
           prunedVerified == Restrict(existingRow.verifiedTools,
                                      (DOMAIN existingRow.verifiedTools) \ {toolName})
       IN configs' = [configs EXCEPT ![id] =
                         [@ EXCEPT !.tools = filteredTools,
                                   !.hasExecution = computeHasExecution(filteredTools),
                                   !.verifiedTools = prunedVerified,
                                   !.version = nextVersion(configs[id])]]
    /\ call' = [call EXCEPT ![p] = NoCall]
    /\ ret' = [ret EXCEPT ![p] = NoCall]
    /\ pc' = [pc EXCEPT ![p] = "idle"]

ConcInit ==
    /\ configs = <<>>
    /\ call = [p \in Procs |-> NoCall]
    /\ ret = [p \in Procs |-> NoCall]
    /\ pc = [p \in Procs |-> "idle"]

ConcNext ==
    \/ \E p \in Procs, id \in ConfigIds, input \in ConcCreateInputs :
          ConcCreate(p, id, input)
    \/ \E p \in Procs, id \in ConfigIds, input \in ConcUpdateInputs :
          ConcUpdateRead(p, id, input)
    \/ \E p \in Procs : ConcUpdateWrite(p)
    \/ \E p \in Procs, id \in ConfigIds, toolName \in {"a", "b"} :
          ConcDeleteRead(p, id, toolName)
    \/ \E p \in Procs : ConcDeleteWrite(p)

ConcSpec == ConcInit /\ [][ConcNext]_vars

----------------------------------------------------------------------------
(* apps/web lib, tools-table store: the tools of a config are rows of a
   tools table; addToolToConfig and deleteToolFromConfig run one statement
   per step, so concurrent requests interleave between statements *)

\* rows of the tools table: unique on (configId, name)
ToolRow(c, name, execution) == [configId |-> c, name |-> name, execution |-> execution]

\* select from tools where configId = c
toolsOf(db, c) == {t \in db.tools : t.configId = c}

NoReturn == [kind |-> "none", tools |-> {}]
ReturnNull == [kind |-> "null", tools |-> {}]

\* a request may start when its previous one has returned
Ready(p) == pc[p] \in {"idle", "returned"}

\* createConfig: the config row and its tool rows; ids are fresh UUIDs, so
\* a deleted id is never used again
TableCreate(id, names) ==
    /\ id \notin configs.ids \cup configs.gone
    /\ configs' = [configs EXCEPT
                      !.ids = @ \cup {id},
                      !.tools = @ \cup {ToolRow(id, n, NULL) : n \in names}]
    /\ UNCHANGED <<call, ret, pc>>

\* addToolToConfig up to its count(*): at the limit it returns "limit".
\* The route calls it for a config it has just found (getConfigById).
AddCount(p, c, name) ==
    /\ Ready(p)
    /\ c \in configs.ids
    /\ LET count == Cardinality(toolsOf(configs, c)) IN
       IF count >= ToolLimit
       THEN /\ ret' = [ret EXCEPT ![p] = [kind |-> "limit", tools |-> {}]]
            /\ pc' = [pc EXCEPT ![p] = "returned"]
       ELSE /\ ret' = [ret EXCEPT ![p] = NoReturn]
            /\ pc' = [pc EXCEPT ![p] = "add_insert"]
    /\ call' = [call EXCEPT ![p] = [fn |-> "addToolToConfig", id |-> c, name |-> name]]
    /\ UNCHANGED configs

\* addToolToConfig's insert ... onConflictDoNothing: the foreign key throws
\* when the config is gone, a taken name inserts nothing and returns null
AddInsert(p) ==
    /\ pc[p] = "add_insert"
    /\ LET c == call[p].id
           row == ToolRow(c, call[p].name, "e1")
       IN IF c \notin configs.ids
          THEN /\ ret' = [ret EXCEPT ![p] = [kind |-> "error", tools |-> {}]]
               /\ UNCHANGED configs
          ELSE IF \E t \in toolsOf(configs, c) : t.name = row.name
               THEN /\ ret' = [ret EXCEPT ![p] = ReturnNull]
                    /\ UNCHANGED configs
               ELSE /\ ret' = [ret EXCEPT ![p] = [kind |-> "tool", tools |-> {row}]]
                    /\ configs' = [configs EXCEPT !.tools = @ \cup {row}]
    /\ pc' = [pc EXCEPT ![p] = "returned"]
    /\ UNCHANGED call

\* deleteToolFromConfig up to its select of the config row
DeleteSelect(p, c, name) ==
    /\ Ready(p)
    /\ call' = [call EXCEPT ![p] =
                   [fn |-> "deleteToolFromConfig", id |-> c, name |-> name]]
    /\ IF c \notin configs.ids
       THEN /\ ret' = [ret EXCEPT ![p] = ReturnNull]
            /\ pc' = [pc EXCEPT ![p] = "returned"]
       ELSE /\ ret' = [ret EXCEPT ![p] = NoReturn]
            /\ pc' = [pc EXCEPT ![p] = "del_delete"]
    /\ UNCHANGED configs

deletedRows_All(db, c, name) == toolsOf(db, c)

\* the rows matched by where(and(eq(tools.configId, c), eq(tools.name, name)))
deletedRows(db, c, name) == {t \in toolsOf(db, c) : t.name = name}

\* db.delete(tools).where(configId, name).returning()
DeleteTools(p) ==
    /\ pc[p] = "del_delete"
    /\ LET deleted == deletedRows(configs, call[p].id, call[p].name) IN
       /\ configs' = [configs EXCEPT !.tools = @ \ deleted]
       /\ pc' = [pc EXCEPT ![p] = IF deleted # {} THEN "del_remaining" ELSE "del_fetch"]
    /\ UNCHANGED <<call, ret>>

\* const remaining = select from tools where configId
DeleteRemaining(p) ==
    /\ pc[p] = "del_remaining"
    /\ pc' = [pc EXCEPT ![p] =
                 IF toolsOf(configs, call[p].id) = {} THEN "del_config" ELSE "del_fetch"]
    /\ UNCHANGED <<configs, call, ret>>

\* db.delete(configs): the tools of the config go with it (onDelete cascade)
DeleteConfig(p) ==
    /\ pc[p] = "del_config"
    /\ configs' = [configs EXCEPT
                      !.ids = @ \ {call[p].id},
                      !.gone = @ \cup {call[p].id},
                      !.tools = @ \ toolsOf(configs, call[p].id)]
    /\ ret' = [ret EXCEPT ![p] = ReturnNull]
    /\ pc' = [pc EXCEPT ![p] = "returned"]
    /\ UNCHANGED call

\* return rowToConfig(configRow, getToolsForConfigIds([configId]))
DeleteFetch(p) ==
    /\ pc[p] = "del_fetch"
    /\ ret' = [ret EXCEPT ![p] =
                  [kind |-> "config", tools |-> toolsOf(configs, call[p].id)]]
    /\ pc' = [pc EXCEPT ![p] = "returned"]
    /\ UNCHANGED <<configs, call>>

TableInit ==
    /\ configs = [ids |-> {}, gone |-> {}, tools |-> {}]
    /\ call = [p \in Procs |-> NoCall]
    /\ ret = [p \in Procs |-> NoReturn]
    /\ pc = [p \in Procs |-> "idle"]

TableNext ==
    \/ \E id \in ConfigIds, names \in (SUBSET ToolNames) \ {{}} :
          Cardinality(names) <= ToolLimit /\ TableCreate(id, names)
    \/ \E p \in Procs, c \in ConfigIds, name \in ToolNames : AddCount(p, c, name)
    \/ \E p \in Procs : AddInsert(p)
    \/ \E p \in Procs, c \in ConfigIds, name \in ToolNames : DeleteSelect(p, c, name)
    \/ \E p \in Procs : DeleteTools(p)
    \/ \E p \in Procs : DeleteRemaining(p)
    \/ \E p \in Procs : DeleteConfig(p)
    \/ \E p \in Procs : DeleteFetch(p)

TableSpec == TableInit /\ [][TableNext]_vars

----------------------------------------------------------------------------
(* packages/db validation: actionStepSchema and its recursive condition step *)

ThenElseMax == 20
StepsMax == 50

\* z.string().min(1) on a step's selector
selectorSchema(s) == Len(s) >= 1

\* actionStepSchema: a click step, or a condition step whose then and
\* optional else lists hold at most 20 steps, each parsed by the same schema
RECURSIVE actionStepSchema(_)
actionStepSchema(step) ==
    IF step.action = "condition"
    THEN /\ selectorSchema(step.selector)
         /\ Len(step.then) <= ThenElseMax
         /\ \A i \in DOMAIN step.then : actionStepSchema(step.then[i])
         /\ "else" \in DOMAIN step =>
               /\ Len(step.else) <= ThenElseMax
               /\ \A i \in DOMAIN step.else : actionStepSchema(step.else[i])
    ELSE selectorSchema(step.selector)

\* steps: z.array(actionStepSchema).max(50)
stepsArraySchema(steps) ==
    /\ Len(steps) <= StepsMax
    /\ \A i \in DOMAIN steps : actionStepSchema(steps[i])

----------------------------------------------------------------------------
(* actionStepSchema applied to nested condition steps *)

ClickStep(selector) == [action |-> "click", selector |-> selector]

\* n copies of step
Repeat(step, n) == [i \in 1..n |-> step]

\* a condition step around the list inner, in its then or in its else list
ConditionStep(branch, inner) ==
    IF branch = "then"
    THEN [action |-> "condition", selector |-> Hash, state |-> "visible", then |-> inner]
    ELSE [action |-> "condition", selector |-> Hash, state |-> "visible",
          then |-> <<>>, else |-> inner]

\* depth conditions nested in one another around the list leaves; the
\* condition at level wide, if any, holds width copies of what it wraps
RECURSIVE Nest(_, _, _, _, _)
Nest(depth, branch, leaves, wide, width) ==
    IF depth = 0 THEN leaves
    ELSE LET inner == Nest(depth - 1, branch, leaves, wide, width) IN
         <<ConditionStep(branch,
                         IF depth = wide /\ inner # <<>>
                         THEN Repeat(inner[1], width)
                         ELSE inner)>>

ListWidths == {1, ThenElseMax, ThenElseMax + 1}

StepInputs ==
    {Nest(depth, branch, Repeat(ClickStep(selector), leaves), wide, width) :
        depth \in 0..MaxDepth,
        branch \in {"then", "else"},
        selector \in {Hash, <<>>},
        leaves \in {0, 1, 2},
        wide \in 0..MaxDepth,
        width \in ListWidths}

StepInit ==
    /\ configs = <<>>
    /\ call \in [fn : {"actionStepSchema"}, steps : StepInputs]
    /\ ret = NoCall
    /\ pc = "called"

StepCall ==
    /\ pc = "called"
    /\ call.fn = "actionStepSchema"
    /\ ret' = [success |-> stepsArraySchema(call.steps)]
    /\ pc' = "returned"
    /\ UNCHANGED <<configs, call>>

StepNext == StepCall

StepSpec == StepInit /\ [][StepNext]_vars

----------------------------------------------------------------------------
(* apps/web lib: votes on tools (the config_votes table of one config) *)

UserIds == {"u1", "u2"}

\* the values the vote route and the vote action let through
VoteValues == {1, -1}

VoteRow(userId, toolName, vote) ==
    [userId |-> userId, toolName |-> toolName, vote |-> vote]

\* the rows selected by where(userId, configId, toolName)
voteWhere(rows, userId, toolName) ==
    {r \in rows : r.userId = userId /\ r.toolName = toolName}

upsertVoteRows_AlwaysInsert(rows, userId, toolName, vote) ==
    rows \cup {VoteRow(userId, toolName, vote)}

\* the table after upsertToolVote: an existing row with the same vote is
\* deleted, one with another vote is updated, no row means an insert
upsertVoteRows(rows, userId, toolName, vote) ==
    LET existing == voteWhere(rows, userId, toolName) IN
    IF existing # {}
    THEN IF \E r \in existing : r.vote = vote
         THEN rows \ existing
         ELSE (rows \ existing) \cup {[r EXCEPT !.vote = vote] : r \in existing}
    ELSE rows \cup {VoteRow(userId, toolName, vote)}

RECURSIVE sumVotes(_)
sumVotes(rows) ==
    IF rows = {} THEN 0
    ELSE LET r == CHOOSE x \in rows : TRUE IN r.vote + sumVotes(rows \ {r})

\* getToolVotes(configId, toolName).score: coalesce(sum(vote), 0)
getToolVotes(rows, toolName) == sumVotes({r \in rows : r.toolName = toolName})

upsertToolVote(userId, toolName, vote) ==
    /\ pc = "idle"
    /\ configs' = upsertVoteRows(configs, userId, toolName, vote)
    /\ call' = [fn |-> "upsertToolVote", userId |-> userId,
                toolName |-> toolName, vote |-> vote]
    /\ UNCHANGED <<ret, pc>>

VoteInit ==
    /\ configs = {}
    /\ call = NoCall
    /\ ret = NoCall
    /\ pc = "idle"

VoteNext ==
    \E userId \in UserIds, toolName \in ToolNames, vote \in VoteValues :
        upsertToolVote(userId, toolName, vote)

VoteSpec == VoteInit /\ [][VoteNext]_vars

----------------------------------------------------------------------------
(* apps/web lib: the sliding-window rate limiter. configs is the store
   (ip -> timestamps), pc is Date.now() in ticks, call holds the max of the
   route and, per ip and tick, how many requests were allowed; ret is the
   last response *)

Ips == {"i1", "i2"}

\* opts.max of the routes, scaled to the ticks of a window
MaxInputs == {1, 2}

\* the cleanup keeps timestamps younger than 60 000 ms, which is the
\* default window, the only one the routes use
CleanupAge == WindowMs

filterWindow_DropAll(timestamps, now, windowMs) == <<>>

\* timestamps.filter((t) => now - t < windowMs)
filterWindow(timestamps, now, windowMs) ==
    SelectSeq(timestamps, LAMBDA t : now - t < windowMs)

\* store.get(ip), or the fresh entry set for it
entryOf(store, ip) == IF ip \in DOMAIN store THEN store[ip] ELSE <<>>

storeSet(store, ip, timestamps) ==
    [k \in (DOMAIN store) \cup {ip} |-> IF k = ip THEN timestamps ELSE store[k]]

\* rateLimit(request, {max}): 429 when the window holds max timestamps,
\* otherwise the timestamp is pushed and null returned
rateLimit(ip) ==
    /\ LET now == pc
           timestamps == filterWindow(entryOf(configs, ip), now, WindowMs)
       IN IF Len(timestamps) >= call.max
          THEN /\ configs' = storeSet(configs, ip, timestamps)
               /\ ret' = [ip |-> ip, status |-> 429]
               /\ UNCHANGED call
          ELSE /\ configs' = storeSet(configs, ip, Append(timestamps, now))
               /\ ret' = [ip |-> ip, status |-> 200]
               /\ call' = [call EXCEPT !.allowed[ip][now] = @ + 1]
    /\ UNCHANGED pc

\* the setInterval callback: drop old timestamps, then empty entries
cleanup ==
    /\ LET now == pc
           kept == [k \in DOMAIN configs |-> filterWindow(configs[k], now, CleanupAge)]
       IN configs' = [k \in {j \in DOMAIN kept : kept[j] # <<>>} |-> kept[k]]
    /\ UNCHANGED <<call, ret, pc>>

\* time passes
Tick ==
    /\ pc < MaxTime
    /\ pc' = pc + 1
    /\ UNCHANGED <<configs, call, ret>>

RateInit ==
    /\ configs = <<>>
    /\ call \in [fn : {"rateLimit"},
                 max : MaxInputs,
                 allowed : {[ip \in Ips |-> [t \in 0..MaxTime |-> 0]]}]
    /\ ret = NoCall
    /\ pc = 0

RateNext ==
    \/ \E ip \in Ips : rateLimit(ip)
    \/ cleanup
    \/ Tick

RateSpec == RateInit /\ [][RateNext]_vars

----------------------------------------------------------------------------
(* Claims *)

\* the positions in list ts that carry the name n
Positions(ts, n) == {k \in DOMAIN ts : ts[k].name = n}

StoreStep(id) ==
    \/ id \notin DOMAIN configs /\ id \in DOMAIN configs'
    \/ /\ id \in (DOMAIN configs) \cap (DOMAIN configs')
       /\ configs'[id].version # configs[id].version

VerifiedKeysSubset ==
    \A id \in DOMAIN configs :
        DOMAIN configs[id].verifiedTools \subseteq NameSet(configs[id].tools)

SnapshotsSurvive(id) ==
    id \in DOMAIN configs =>
        \A n \in DOMAIN configs[id].verifiedTools :
            n \in NameSet(configs'[id].tools) =>
                /\ n \in DOMAIN configs'[id].verifiedTools
                /\ configs'[id].verifiedTools[n] = configs[id].verifiedTools[n]

\* C2: in every state the keys of the stored verified-snapshot map are names
\* of stored tools, and every createConfig, updateConfig or
\* deleteToolFromConfig step keeps, unchanged, the snapshot of each tool that
\* is still present afterwards.
C2_VerifiedPruned ==
    /\ []VerifiedKeysSubset
    /\ [][\A id \in ConfigIds : StoreStep(id) => SnapshotsSurvive(id)]_vars

\* after an update or deletion, some tool is verified and another is not
C2_Witness ==
    \E id \in DOMAIN configs :
        /\ configs[id].version >= 3
        /\ DOMAIN configs[id].verifiedTools # {}
        /\ DOMAIN configs[id].verifiedTools # NameSet(configs[id].tools)

\* C3: no stored tool list holds two tools with the same name.
C3_UniqueNames ==
    \A id \in DOMAIN configs :
        \A i, j \in DOMAIN configs[id].tools :
            i # j => configs[id].tools[i].name # configs[id].tools[j].name

\* a config that was updated and now holds three tools
C3_Witness ==
    \E id \in DOMAIN configs :
        configs[id].version >= 2 /\ Len(configs[id].tools) >= 3

\* C4: the stored hasExecution flag is 1 exactly when some stored tool
\* carries an execution descriptor.
C4_HasExecution ==
    \A id \in DOMAIN configs :
        (configs[id].hasExecution = 1) <=>
            (\E t \in Range(configs[id].tools) : t.execution # NULL)

\* after an update or deletion the flag is 0 although tools remain
C4_Witness ==
    \E id \in DOMAIN configs :
        /\ configs[id].version >= 2
        /\ configs[id].hasExecution = 0
        /\ configs[id].tools # <<>>

\* the pattern's and the URL's path segments of the call under examination
CallPatternSegs == splitSegments(extractPath(call.urlPattern, call.domain))
CallUrlSegs == splitSegments(normalizeUrlToPath(call.actualUrl))

IsParamSeg(seg) == seg # <<>> /\ seg[1] = ":"
IsWildcardSeg(seg) == seg = <<"*", "*">>
IsStaticSeg(seg) == ~IsParamSeg(seg) /\ ~IsWildcardSeg(seg)
ParamName(seg) == SubSeq(seg, 2, Len(seg))

\* the segment at position i of the URL satisfies pattern segment i
SegmentAgrees(P, U, i) ==
    /\ i <= Len(U)
    /\ \/ IsParamSeg(P[i])
       \/ IsStaticSeg(P[i]) /\ toLowerCase(P[i]) = toLowerCase(U[i])

\* 3 for every static and 2 for every :param segment among positions 1..n
WeightSum(P, n) ==
    3 * Cardinality({i \in 1..n : IsStaticSeg(P[i])})
    + 2 * Cardinality({i \in 1..n : IsParamSeg(P[i])})

\* C5: a domain-only pattern (the domain, optionally followed by one "/")
\* matches every URL with score 0 and no params.
C5_DomainOnly ==
    (pc = "returned" /\ call.fn = "matchUrlPattern"
        /\ call.urlPattern \in {call.domain, call.domain \o Slash})
    => (ret.matched /\ ret.score = 0 /\ DOMAIN ret.params = {})

\* the pattern "domain/" was matched against a URL two or more segments deep
C5_Witness ==
    /\ pc = "returned"
    /\ call.fn = "matchUrlPattern"
    /\ call.urlPattern = call.domain \o Slash
    /\ Len(CallUrlSegs) >= 2
    /\ ret.matched

\* the pattern of the call has a path segment and no "**" segment
WildcardFree ==
    /\ pc = "returned"
    /\ call.fn = "matchUrlPattern"
    /\ CallPatternSegs # <<>>
    /\ \A i \in DOMAIN CallPatternSegs : ~IsWildcardSeg(CallPatternSegs[i])

ExactMatchExpected(P, U) ==
    /\ Len(U) = Len(P)
    /\ \A i \in DOMAIN P : SegmentAgrees(P, U, i)

PrefixAgrees ==
    /\ pc = "returned"
    /\ call.fn = "matchUrlPattern"
    /\ CallPatternSegs # <<>>
    /\ IsWildcardSeg(CallPatternSegs[Len(CallPatternSegs)])
    /\ \A i \in 1..(Len(CallPatternSegs) - 1) :
          SegmentAgrees(CallPatternSegs, CallUrlSegs, i)

\* C7: a pattern ending in "**" matches every URL whose leading segments
\* agree with the segments before the "**", however many URL segments remain,
\* and scores the weights of the segments before the "**" only.
C7_WildcardPrefix ==
    PrefixAgrees =>
        /\ ret.matched
        /\ ret.score = WeightSum(CallPatternSegs, Len(CallPatternSegs) - 1)

\* a "**" pattern matched a URL with two or more segments under the prefix
C7_Witness ==
    /\ PrefixAgrees
    /\ Len(CallPatternSegs) >= 2
    /\ Len(CallUrlSegs) >= Len(CallPatternSegs) + 1
    /\ ret.matched

\* C8: a pattern with a "**" segment that is not its last segment matches no
\* URL.
C8_MalformedNeverMatches ==
    (pc = "returned" /\ call.fn = "matchUrlPattern"
        /\ \E i \in 1..(Len(CallPatternSegs) - 1) : IsWildcardSeg(CallPatternSegs[i]))
    => ~ret.matched

Ranked == pc = "returned" /\ call.fn = "rankConfigsByUrl"

\* match result of a record's pattern against the URL of the call
RecordMatch(r) == matchUrlPattern(r.urlPattern, call.actualUrl, call.domain)

\* C9: rankConfigsByUrl returns exactly the records whose urlPattern matches
\* the URL, each once, in order of non-increasing match score.
C9_RankFiltersAndSorts ==
    Ranked =>
        LET matching == {i \in DOMAIN call.configs : RecordMatch(call.configs[i]).matched}
        IN /\ {ret[k].name : k \in DOMAIN ret} = matching
           /\ Len(ret) = Cardinality(matching)
           /\ \A k \in DOMAIN ret : ret[k] = call.configs[ret[k].name]
           /\ \A k \in 1..(Len(ret) - 1) :
                 RecordMatch(ret[k]).score >= RecordMatch(ret[k + 1]).score

\* a record was dropped and two records of different score changed places
C9_Witness ==
    /\ Ranked
    /\ Len(ret) < Len(call.configs)
    /\ \E k \in 1..(Len(ret) - 1) :
          /\ ret[k].name > ret[k + 1].name
          /\ RecordMatch(ret[k]).score > RecordMatch(ret[k + 1]).score

IsDomainOnly(urlPattern) == urlPattern \in {call.domain, call.domain \o Slash}

\* C10: every record with a domain-only pattern is in the result, behind every
\* matching record whose pattern is not domain-only.
C10_DomainOnlyLast ==
    Ranked =>
        /\ \A i \in DOMAIN call.configs :
              IsDomainOnly(call.configs[i].urlPattern) =>
                  \E k \in DOMAIN ret : ret[k].name = i
        /\ \A k, l \in DOMAIN ret :
              (IsDomainOnly(ret[k].urlPattern) /\ ~IsDomainOnly(ret[l].urlPattern))
                  => l < k

\* the path segments of a record's urlPattern
RecordSegs(r) == splitSegments(extractPath(r.urlPattern, call.domain))

AllStatic(P) == P # <<>> /\ \A i \in DOMAIN P : IsStaticSeg(P[i])

\* wildcard-free with at least one :param segment
HasParamNoWildcard(P) ==
    /\ \E i \in DOMAIN P : IsParamSeg(P[i])
    /\ \A i \in DOMAIN P : ~IsWildcardSeg(P[i])

\* C11: when an all-static pattern and a wildcard-free pattern with a :param
\* segment, both of the same segment count, match the URL, the all-static
\* record is ranked before the other.
C11_StaticBeforeDynamic ==
    Ranked =>
        \A k, l \in DOMAIN ret :
            (/\ AllStatic(RecordSegs(ret[k]))
             /\ HasParamNoWildcard(RecordSegs(ret[l]))
             /\ Len(RecordSegs(ret[k])) = Len(RecordSegs(ret[l])))
            => k < l

\* the dynamic record came first in the input and second in the result
C11_Witness ==
    /\ Ranked
    /\ \E k, l \in DOMAIN ret :
          /\ AllStatic(RecordSegs(ret[k]))
          /\ HasParamNoWildcard(RecordSegs(ret[l]))
          /\ Len(RecordSegs(ret[k])) = Len(RecordSegs(ret[l]))
          /\ Len(RecordSegs(ret[k])) = 2
          /\ k < l
          /\ ret[k].name > ret[l].name

ToolReturned == pc = "returned" /\ call.fn = "toolDescriptorSchema"

\* the keys of the tool's inputSchema.properties
PropertyKeys(tool) ==
    IF "properties" \in DOMAIN tool.inputSchema
    THEN DOMAIN tool.inputSchema.properties
    ELSE {}

\* the tool's name is not empty, its inputSchema has type "object" and
\* every property value is an object with a string type
StructurallyValid(tool) ==
    /\ Len(tool.name) >= 1
    /\ tool.inputSchema.type = "object"
    /\ "properties" \in DOMAIN tool.inputSchema =>
          \A k \in DOMAIN tool.inputSchema.properties :
              /\ tool.inputSchema.properties[k].json = "object"
              /\ tool.inputSchema.properties[k].type = "string"

HasFields(tool) == "execution" \in DOMAIN tool /\ "fields" \in DOMAIN tool.execution
HasSteps(tool) == "execution" \in DOMAIN tool /\ "steps" \in DOMAIN tool.execution

\* C12: a structurally valid tool with an execution.fields[i].name that is
\* not a key of inputSchema.properties is rejected with an issue at path
\* [execution, fields, i, name] that names the field and lists the property
\* names.
C12_FieldNamesChecked ==
    (ToolReturned /\ StructurallyValid(call.tool) /\ HasFields(call.tool)) =>
        \A i \in DOMAIN call.tool.execution.fields :
            call.tool.execution.fields[i].name \notin PropertyKeys(call.tool) =>
                /\ ~ret.success
                /\ \E e \in ret.issues :
                      /\ e.path = <<"execution", "fields", i - 1, "name">>
                      /\ "field" \in DOMAIN e
                      /\ e.field = call.tool.execution.fields[i].name
                      /\ e.available = PropertyKeys(call.tool)

\* the second of two fields names no property of a non-empty properties map
C12_Witness ==
    /\ ToolReturned /\ StructurallyValid(call.tool) /\ HasFields(call.tool)
    /\ PropertyKeys(call.tool) # {}
    /\ Len(call.tool.execution.fields) = 2
    /\ call.tool.execution.fields[1].name \in PropertyKeys(call.tool)
    /\ call.tool.execution.fields[2].name \notin PropertyKeys(call.tool)
    /\ ~ret.success

\* sub occurs in s as a contiguous substring
Occurs(sub, s) ==
    \E a \in 1..(Len(s) - Len(sub) + 1) : SubSeq(s, a, a + Len(sub) - 1) = sub

\* the names a template may carry: non-empty strings of word characters
Tokens == SeqUpTo(WordChars, 2) \ {<<>>}

\* some step string of the tool holds {{token}} for a token that is no property
UnknownTokenInSteps(tool) ==
    \E i \in DOMAIN tool.execution.steps :
        \E k \in StepKeys \cap DOMAIN tool.execution.steps[i] :
            \E token \in Tokens \ PropertyKeys(tool) :
                Occurs(Template(token), tool.execution.steps[i][k])

\* C13: a structurally valid tool with a {{token}} in the url, value or
\* selector of a step, where token is not a key of inputSchema.properties,
\* is rejected, whatever the inputSchema, an empty properties map included.
C13_TokensChecked ==
    (/\ ToolReturned /\ StructurallyValid(call.tool) /\ HasSteps(call.tool)
     /\ UnknownTokenInSteps(call.tool))
    => ~ret.success

\* C16: a tool is accepted only if its inputSchema has type "object" and
\* every value in properties is an object with a string type; scalars,
\* objects without a string type and other top-level types are rejected.
C16_InputSchemaShape ==
    (ToolReturned /\ ret.success) => StructurallyValid(call.tool)

\* an inputSchema of type "object" rejected for a scalar property value,
\* reported at that property
C16_Witness ==
    /\ ToolReturned
    /\ call.tool.inputSchema.type = "object"
    /\ "properties" \in DOMAIN call.tool.inputSchema
    /\ \E k \in DOMAIN call.tool.inputSchema.properties :
          /\ call.tool.inputSchema.properties[k].json = "number"
          /\ \E e \in ret.issues : e.path = <<"inputSchema", "properties", k>>
    /\ ~ret.success

SchemaReturned ==
    pc = "returned" /\ call.fn \in {"createConfigSchema", "updateConfigSchema"}

ToolsProvided == "tools" \in DOMAIN call.input

\* the positions of tools whose name occurs at another position as well
DuplicatedPositions(tools) ==
    {i \in DOMAIN tools : \E j \in DOMAIN tools : j # i /\ tools[j].name = tools[i].name}

\* C14: a tools array in which two entries share a name is rejected by both
\* schemas, and every occurrence of a duplicated name, the first included,
\* is reported as an issue carrying its own array index.
C14_EveryDuplicateReported ==
    (SchemaReturned /\ ToolsProvided /\ DuplicatedPositions(call.input.tools) # {}) =>
        /\ ~ret.success
        /\ \A i \in DuplicatedPositions(call.input.tools) :
              <<"tools", i - 1, "name">> \in ret.issues

\* C15: createConfigSchema rejects an empty tools array, and
\* updateConfigSchema rejects an empty tools array when one is provided.
C15_EmptyToolsRejected ==
    (SchemaReturned /\ ToolsProvided /\ call.input.tools = <<>>) => ~ret.success

HasSchemePrefix(s) == startsWith(s, Https) \/ startsWith(s, Http)

\* C17: the urlPattern in the output of an accepted create or update input
\* has no scheme prefix and no trailing slash.
C17_UrlPatternNormalized ==
    (SchemaReturned /\ ret.success /\ "urlPattern" \in DOMAIN ret.data) =>
        /\ ~HasSchemePrefix(ret.data.urlPattern)
        /\ ~endsWith(ret.data.urlPattern, Slash)

UpperChars == {"A", "B", "D", "W"}

\* C18: the domain in the output of an accepted create input is lowercase
\* and does not begin with "www.".
C18_DomainNormalized ==
    (pc = "returned" /\ call.fn = "createConfigSchema" /\ ret.success) =>
        /\ \A i \in DOMAIN ret.data.domain : ret.data.domain[i] \notin UpperChars
        /\ ~startsWith(ret.data.domain, Www)

\* the step replaces the stored definition of tool n of config id by a
\* different one
Overwrites(id, n) ==
    \E i \in DOMAIN configs[id].tools, j \in DOMAIN configs'[id].tools :
        /\ configs[id].tools[i].name = n
        /\ configs'[id].tools[j].name = n
        /\ configs'[id].tools[j] # configs[id].tools[i]

\* C19: after updateConfig overwrites, with a different definition, a tool
\* that has an entry in the verified-snapshot map, the tool's name is no
\* longer a key of the stored map and is no longer reported as verified.
C19_OverwriteInvalidates ==
    [][\A id \in ConfigIds :
          (id \in DOMAIN configs /\ id \in DOMAIN configs') =>
              \A n \in DOMAIN configs[id].verifiedTools :
                  Overwrites(id, n) =>
                      /\ n \notin DOMAIN configs'[id].verifiedTools
                      /\ n \notin verifiedToolNames(configs'[id])]_vars

\* the step inserts the row of config id
Inserted(id) == id \notin DOMAIN configs /\ id \in DOMAIN configs'

\* the step is the write of an updateConfig or deleteToolFromConfig on id
Written(id) ==
    \E p \in Procs :
        /\ pc[p] \in {"update", "delete"} /\ pc'[p] = "idle"
        /\ call[p].id = id

\* C20: a config's version is 1 after createConfig, never decreases, and is
\* strictly greater after every write of an updateConfig or
\* deleteToolFromConfig, in particular after every one that changes the
\* row, however the reads and writes of concurrent requests interleave.
C20_VersionMonotonic ==
    [][\A id \in ConfigIds :
          /\ Inserted(id) => configs'[id].version = 1
          /\ id \in DOMAIN configs =>
                /\ id \in DOMAIN configs'
                /\ configs'[id].version >= configs[id].version
                /\ (Written(id) \/ configs'[id] # configs[id]) =>
                       configs'[id].version > configs[id].version]_vars

\* a request still holds the row it read at version 1 while another
\* request has since written the row: the stored version is 2 and the
\* stored tools differ from the ones read
C20_Witness ==
    \E p \in Procs, id \in ConfigIds :
        /\ pc[p] \in {"update", "delete"}
        /\ id \in DOMAIN configs
        /\ call[p].id = id
        /\ ret[p].version = 1
        /\ configs[id].version = 2
        /\ configs[id].tools # ret[p].tools

\* the step is request p's statement taking it from pc value a to b
Moves(p, a, b) == pc[p] = a /\ pc'[p] = b

StepReturned == pc = "returned" /\ call.fn = "actionStepSchema"

\* how deep the then/else lists of condition steps nest in a list of steps
Max(S) == CHOOSE x \in S : \A y \in S : y <= x

RECURSIVE Depth(_)
Depth(steps) ==
    Max({0} \cup
        {1 + Max({Depth(steps[i].then)} \cup
                 (IF "else" \in DOMAIN steps[i] THEN {Depth(steps[i].else)} ELSE {})) :
            i \in {j \in DOMAIN steps : steps[j].action = "condition"}})

\* some then or else list, at any level, holds more than 20 steps
RECURSIVE HasLongList(_)
HasLongList(steps) ==
    \E i \in DOMAIN steps :
        /\ steps[i].action = "condition"
        /\ \/ Len(steps[i].then) > ThenElseMax
           \/ HasLongList(steps[i].then)
           \/ /\ "else" \in DOMAIN steps[i]
              /\ Len(steps[i].else) > ThenElseMax \/ HasLongList(steps[i].else)

\* C22: validation of action steps is bounded: some fixed depth D exists
\* beyond which nested condition steps are rejected, and a then/else list
\* of more than 20 steps is rejected. A depth bound D below MaxDepth would
\* reject every execution nested MaxDepth deep, which is what is stated.
C22_NestingBounded ==
    (StepReturned /\ (Depth(call.steps) >= MaxDepth \/ HasLongList(call.steps)))
    => ~ret.success

\* an issue of the cross-reference refinement / of the object schema
CrossReferenceIssue(e) == "field" \in DOMAIN e \/ "variable" \in DOMAIN e
StructuralIssue(e) == "code" \in DOMAIN e

\* C23: for a structurally valid tool the issue list holds an issue for
\* each execution field whose name is no property and for each unknown
\* {{token}} of each step string, each at the path of its own location.
C23_EveryIssueCollected ==
    (ToolReturned /\ StructurallyValid(call.tool) /\ "execution" \in DOMAIN call.tool) =>
        /\ HasFields(call.tool) =>
              \A i \in DOMAIN call.tool.execution.fields :
                  call.tool.execution.fields[i].name \notin PropertyKeys(call.tool) =>
                      \E e \in ret.issues :
                          /\ "field" \in DOMAIN e
                          /\ e.path = <<"execution", "fields", i - 1, "name">>
        /\ HasSteps(call.tool) =>
              \A i \in DOMAIN call.tool.execution.steps :
                  \A k \in StepKeys \cap DOMAIN call.tool.execution.steps[i] :
                      \A token \in Tokens \ PropertyKeys(call.tool) :
                          Occurs(Template(token), call.tool.execution.steps[i][k]) =>
                              \E e \in ret.issues :
                                  /\ "variable" \in DOMAIN e
                                  /\ e.path = <<"execution", "steps", i - 1, k>>
                                  /\ e.variable = token

\* C24: no validation result holds both a structural issue and a
\* cross-reference issue.
C24_PassesSeparate ==
    ToolReturned =>
        ~(/\ \E e \in ret.issues : StructuralIssue(e)
          /\ \E e \in ret.issues : CrossReferenceIssue(e))

NoWildcardSegs(P) == P # <<>> /\ \A i \in DOMAIN P : ~IsWildcardSeg(P[i])
EndsInWildcard(P) == P # <<>> /\ IsWildcardSeg(P[Len(P)])

\* C25: when a wildcard-free pattern E and a pattern W ending in ** with
\* the same number of pattern segments both match the URL, the record of E
\* is ranked before the record of W, whatever their order in the input.
C25_ExactBeforeWildcard ==
    Ranked =>
        \A k, l \in DOMAIN ret :
            (/\ NoWildcardSegs(RecordSegs(ret[k]))
             /\ EndsInWildcard(RecordSegs(ret[l]))
             /\ Len(RecordSegs(ret[k])) = Len(RecordSegs(ret[l])))
            => k < l

\* C26: however two updateConfig calls that supply tools interleave, no
\* stored tool name is lost: the write of an updateConfig leaves stored
\* every name that was stored just before it (among them the names the
\* other call has written) and every name it supplies.
C26_MergeNeverRemoves ==
    [][\A p \in Procs :
          (/\ Moves(p, "update", "idle")
           /\ "tools" \in DOMAIN call[p].input) =>
              NameSet(configs[call[p].id].tools) \cup NameSet(call[p].input.tools)
                  \subseteq NameSet(configs'[call[p].id].tools)]_vars

\* C27: the number of tools stored for a config never exceeds the limit of
\* addToolToConfig, however its calls interleave.
C27_ToolLimitHolds ==
    \A c \in configs.ids : Cardinality(toolsOf(configs, c)) <= ToolLimit

\* C28: a tool that addToolToConfig inserted stays in its config until it
\* is deleted by name: a step removes a tool row only if it is the delete
\* statement of a deleteToolFromConfig call for that config and that name.
C28_AddedToolStays ==
    [][\A t \in configs.tools :
          t \notin configs'.tools =>
              \E p \in Procs :
                  /\ pc[p] = "del_delete" /\ pc'[p] # "del_delete"
                  /\ call[p].id = t.configId
                  /\ call[p].name = t.name]_vars

\* the vote stored for a user and a tool, 0 when there is none
StoredVote(rows, userId, toolName) ==
    IF voteWhere(rows, userId, toolName) = {} THEN 0
    ELSE (CHOOSE r \in voteWhere(rows, userId, toolName) : TRUE).vote

\* each user has at most one stored vote per tool, of +1 or -1, and a
\* tool's score is its upvotes less its downvotes
VotesWellFormed ==
    /\ \A userId \in UserIds, toolName \in ToolNames :
          /\ Cardinality(voteWhere(configs, userId, toolName)) <= 1
          /\ \A r \in voteWhere(configs, userId, toolName) : r.vote \in {1, -1}
    /\ \A toolName \in ToolNames :
          getToolVotes(configs, toolName) =
              Cardinality({u \in UserIds : StoredVote(configs, u, toolName) = 1})
              - Cardinality({u \in UserIds : StoredVote(configs, u, toolName) = -1})

\* a call with the stored value removes the vote, with the opposite value
\* replaces it, with none stored inserts it, and touches no other vote
VoteToggles ==
    \A userId \in UserIds, toolName \in ToolNames :
        IF userId = call'.userId /\ toolName = call'.toolName
        THEN StoredVote(configs', userId, toolName) =
                 IF StoredVote(configs, userId, toolName) = call'.vote
                 THEN 0 ELSE call'.vote
        ELSE StoredVote(configs', userId, toolName) = StoredVote(configs, userId, toolName)

\* C29: upsertToolVote toggles the vote of (user, tool): the stored value
\* again removes it, the opposite value replaces it, no stored vote inserts
\* it; after any sequence of calls each user has at most one vote of +1 or
\* -1 per tool and a tool's score is the sum of its stored votes.
C29_VotesToggle ==
    /\ []VotesWellFormed
    /\ [][VoteToggles]_vars

\* user u1 has changed an upvote on tool a into a downvote while u2's
\* upvote stands: the score is 0
C29_Witness ==
    /\ call.fn = "upsertToolVote"
    /\ call.userId = "u1" /\ call.toolName = "a" /\ call.vote = -1
    /\ StoredVote(configs, "u1", "a") = -1
    /\ StoredVote(configs, "u2", "a") = 1
    /\ getToolVotes(configs, "a") = 0

RECURSIVE allowedBetween(_, _, _)
\* requests of ip answered null at the times s..e
allowedBetween(ip, s, e) ==
    IF s > e THEN 0 ELSE call.allowed[ip][s] + allowedBetween(ip, s + 1, e)

\* in every interval shorter than the window, at most max requests of an
\* ip were allowed
WindowHolds ==
    \A ip \in Ips : \A s \in 0..MaxTime : \A e \in s..MaxTime :
        e - s < WindowMs => allowedBetween(ip, s, e) <= call.max

\* a request answered 429 leaves no timestamp of its own: the entry of the
\* ip holds no more timestamps than before, all of them old ones
DeniedRecordsNothing ==
    \A ip \in Ips :
        (rateLimit(ip) /\ ret'.status = 429) =>
            /\ Len(configs'[ip]) <= Len(entryOf(configs, ip))
            /\ \A i \in 1..Len(configs'[ip]) :
                   \E j \in 1..Len(entryOf(configs, ip)) : configs'[ip][i] = configs[ip][j]
            /\ call'.allowed = call.allowed

====
